---- MODULE Spec2Model ----
(***************************************************************************)
(* GATT attribute value buffers and object-tree registration of            *)
(* bluez-zbus (src/src/interface/gatt).                                    *)
(*                                                                         *)
(* Spec     : one published attribute (a GattCharacteristic1 or a          *)
(*            GattDescriptor1) serving ReadValue / WriteValue requests on  *)
(*            its Arc<Mutex<Vec<u8>>> value buffer.                        *)
(* SpecReg  : GattApplication1::register_new walking a declaration of      *)
(*            services, characteristics and descriptors.                   *)
(***************************************************************************)
EXTENDS Integers, Sequences, FiniteSets, TLC

(***************************************************************************)
(* Bounds of the model.                                                    *)
(***************************************************************************)
MaxByte == 1
MaxInitLen == 1
MaxValueLen == 1
MaxOffset == 2

\* usize::MAX, the value data.len() - 1 wraps to on an empty buffer when the
\* build has overflow checks off.  TLC integers are 32-bit, so the largest
\* representable value stands for it; it is only ever compared with a u16.
UsizeMax == 2147483647

Byte == 0 .. MaxByte
SeqsUpTo(S, n) == UNION {[1 .. k -> S] : k \in 0 .. n}
Buffers == SeqsUpTo(Byte, MaxInitLen)
Values == SeqsUpTo(Byte, MaxValueLen)
U16 == 0 .. MaxOffset

\* The options map of a request, reduced to its "offset" entry: absent, a
\* zvariant::Value::U16, or a value of another D-Bus type (here a U32).
OptionsSet ==
    {[kind |-> "absent", val |-> 0]}
        \cup {[kind |-> "U16", val |-> n] : n \in U16}
        \cup {[kind |-> "U32", val |-> MaxOffset]}

VARIABLES
    kind,             \* which interface the attribute publishes
    overflow_checks,  \* the build: TRUE = integer overflow panics, FALSE = wraps
    data,             \* the Vec<u8> inside the Arc<Mutex<..>>
    poisoned,         \* the Mutex's poison flag
    last,             \* the last request served and its outcome
    object_server,    \* the connection's object server: the objects published, in order
    registrar,        \* the calls received by org.bluez.GattManager1, in order
    reg,              \* the register_new call made and what it returned
    stores,           \* the value buffers of the registered attributes, by position
    threads           \* the requests being served concurrently

store_vars == <<kind, overflow_checks, data, poisoned, last>>

reg_vars == <<object_server, registrar, reg>>

serve_vars == <<stores, threads>>

vars == <<kind, overflow_checks, data, poisoned, last, object_server, registrar, reg,
          stores, threads>>

(***************************************************************************)
(* The std operations the handlers call.                                   *)
(***************************************************************************)
\* vec![0; n]
Zeros(n) == [i \in 1 .. n |-> 0]

\* Vec::truncate(n): keeps the first n elements, no effect when n >= len
Truncate(s, n) == IF n < Len(s) THEN SubSeq(s, 1, n) ELSE s

\* &s[from..]: the caller checks from <= Len(s), else the index panics
SliceFrom(s, from) == SubSeq(s, from + 1, Len(s))

\* dst[..n].copy_from_slice(src) with n = Len(src) <= Len(dst)
CopyPrefix(dst, src) ==
    [i \in 1 .. Len(dst) |-> IF i <= Len(src) THEN src[i] ELSE dst[i]]

\* dst[from..].copy_from_slice(src) with Len(dst) - from = Len(src)
CopySuffix(dst, from, src) ==
    [i \in 1 .. Len(dst) |-> IF i > from THEN src[i - from] ELSE dst[i]]

\* data.len() - 1 on usize: panics under overflow checks, wraps without
LenMinusOne(len, checks) ==
    IF len >= 1 THEN [panic |-> FALSE, v |-> len - 1]
    ELSE IF checks THEN [panic |-> TRUE, v |-> 0]
    ELSE [panic |-> FALSE, v |-> UsizeMax]

\* Outcome of a handler: the reply (res, ret) and the buffer and lock it leaves.
\* res = "panic" is a handler that unwound while holding the MutexGuard, which
\* poisons the Mutex and sends no reply value.
Outcome(res, ret, d, p) == [res |-> res, ret |-> ret, data |-> d, poisoned |-> p]

\* The offset of a request: the "offset" option when it is a u16, else 0
OffsetIn(options) == IF options.kind = "U16" THEN options.val ELSE 0

\* data[offset..].copy_from_slice(value) on the buffer truncate left, and the
\* return of write_value after it
write_value_copy(truncated, value, offset) ==
    IF offset > Len(truncated) THEN Outcome("panic", <<>>, truncated, TRUE)
    ELSE IF Len(truncated) - offset # Len(value)
        THEN Outcome("panic", <<>>, truncated, TRUE)
    ELSE Outcome("Ok", <<>>, CopySuffix(truncated, offset, value), FALSE)

(***************************************************************************)
(* GattCharacteristic1: ReadValue and WriteValue.                          *)
(***************************************************************************)
\* A faulty variant of read_value: a poisoned lock is recovered
\* (PoisonError::into_inner) and the read served
GattCharacteristic1_read_value_recovering(d, p, options, checks) ==
    IF options.kind = "U16" THEN
        LET bound == LenMinusOne(Len(d), checks) IN
        IF bound.panic THEN Outcome("panic", <<>>, d, TRUE)
        ELSE IF options.val >= bound.v THEN Outcome("InvalidOffset", <<>>, d, FALSE)
        ELSE IF options.val > Len(d) THEN Outcome("panic", <<>>, d, TRUE)
        ELSE Outcome("Ok", SliceFrom(d, options.val), d, FALSE)
    ELSE Outcome("Ok", SliceFrom(d, 0), d, FALSE)

GattCharacteristic1_read_value(d, p, options, checks) ==
    IF p THEN Outcome("Failed", <<>>, d, p)
    ELSE IF options.kind = "U16" THEN
        LET bound == LenMinusOne(Len(d), checks) IN
        IF bound.panic THEN Outcome("panic", <<>>, d, TRUE)
        ELSE IF options.val >= bound.v THEN Outcome("InvalidOffset", <<>>, d, p)
        ELSE IF options.val > Len(d) THEN Outcome("panic", <<>>, d, TRUE)
        ELSE Outcome("Ok", SliceFrom(d, options.val), d, p)
    ELSE Outcome("Ok", SliceFrom(d, 0), d, p)

\* A faulty variant of write_value: inside the current bounds the value is
\* written over the bytes at the offset and the buffer is not truncated
GattCharacteristic1_write_value_in_place(d, p, value, options) ==
    IF p THEN Outcome("Failed", <<>>, d, p)
    ELSE
        LET offset == IF options.kind = "U16" THEN options.val ELSE 0
            data_len == Len(d)
            value_len == Len(value)
        IN
        IF offset + value_len > data_len THEN
            LET max_len == IF value_len < data_len THEN data_len ELSE value_len
                zeroed == Zeros(offset + max_len)
            IN
            IF Len(zeroed) - offset # value_len
                THEN Outcome("panic", <<>>, d, TRUE)
            ELSE Outcome("Ok", <<>>, CopySuffix(CopyPrefix(zeroed, d), offset, value), p)
        ELSE
            Outcome("Ok", <<>>,
                    [i \in 1 .. data_len |->
                        IF i > offset /\ i <= offset + value_len
                        THEN value[i - offset] ELSE d[i]],
                    p)

GattCharacteristic1_write_value(d, p, value, options) ==
    IF p THEN Outcome("Failed", <<>>, d, p)
    ELSE
        LET offset == IF options.kind = "U16" THEN options.val ELSE 0
            data_len == Len(d)
            value_len == Len(value)
        IN
        IF offset + value_len > data_len THEN
            LET max_len == IF value_len < data_len THEN data_len ELSE value_len
                zeroed == Zeros(offset + max_len)
            IN
            IF data_len > Len(zeroed) THEN Outcome("panic", <<>>, d, TRUE)
            ELSE IF Len(zeroed) - offset # value_len
                THEN Outcome("panic", <<>>, d, TRUE)
            ELSE Outcome("Ok", <<>>, CopySuffix(CopyPrefix(zeroed, d), offset, value), p)
        ELSE
            LET truncated == Truncate(d, value_len) IN
            IF offset > Len(truncated) THEN Outcome("panic", <<>>, truncated, TRUE)
            ELSE IF Len(truncated) - offset # value_len
                THEN Outcome("panic", <<>>, truncated, TRUE)
            ELSE Outcome("Ok", <<>>, CopySuffix(truncated, offset, value), p)

(***************************************************************************)
(* GattDescriptor1: ReadValue and WriteValue (the same code, repeated in   *)
(* descriptor.rs).                                                         *)
(***************************************************************************)
\* A faulty variant of read_value: the bound test is applied to the default
\* offset too
GattDescriptor1_read_value_default_checked(d, p, options, checks) ==
    IF p THEN Outcome("Failed", <<>>, d, p)
    ELSE
        LET ofs == IF options.kind = "U16" THEN options.val ELSE 0
            bound == LenMinusOne(Len(d), checks)
        IN
        IF bound.panic THEN Outcome("panic", <<>>, d, TRUE)
        ELSE IF ofs >= bound.v THEN Outcome("InvalidOffset", <<>>, d, p)
        ELSE IF ofs > Len(d) THEN Outcome("panic", <<>>, d, TRUE)
        ELSE Outcome("Ok", SliceFrom(d, ofs), d, p)

\* A faulty variant of read_value: the bytes returned are moved out of the
\* buffer (split_off) instead of copied
GattDescriptor1_read_value_split_off(d, p, options, checks) ==
    IF p THEN Outcome("Failed", <<>>, d, p)
    ELSE IF options.kind = "U16" THEN
        LET bound == LenMinusOne(Len(d), checks) IN
        IF bound.panic THEN Outcome("panic", <<>>, d, TRUE)
        ELSE IF options.val >= bound.v THEN Outcome("InvalidOffset", <<>>, d, p)
        ELSE IF options.val > Len(d) THEN Outcome("panic", <<>>, d, TRUE)
        ELSE Outcome("Ok", SliceFrom(d, options.val), SubSeq(d, 1, options.val), p)
    ELSE Outcome("Ok", SliceFrom(d, 0), <<>>, p)

GattDescriptor1_read_value(d, p, options, checks) ==
    IF p THEN Outcome("Failed", <<>>, d, p)
    ELSE IF options.kind = "U16" THEN
        LET bound == LenMinusOne(Len(d), checks) IN
        IF bound.panic THEN Outcome("panic", <<>>, d, TRUE)
        ELSE IF options.val >= bound.v THEN Outcome("InvalidOffset", <<>>, d, p)
        ELSE IF options.val > Len(d) THEN Outcome("panic", <<>>, d, TRUE)
        ELSE Outcome("Ok", SliceFrom(d, options.val), d, p)
    ELSE Outcome("Ok", SliceFrom(d, 0), d, p)

\* A faulty variant of write_value: an offset past the end of the buffer is
\* rejected (the check left commented out in the handler)
GattDescriptor1_write_value_checked(d, p, value, options) ==
    IF p THEN Outcome("Failed", <<>>, d, p)
    ELSE
        LET offset == IF options.kind = "U16" THEN options.val ELSE 0
            data_len == Len(d)
            value_len == Len(value)
        IN
        IF offset > data_len THEN Outcome("InvalidOffset", <<>>, d, p)
        ELSE IF offset + value_len > data_len THEN
            LET max_len == IF value_len < data_len THEN data_len ELSE value_len
                zeroed == Zeros(offset + max_len)
            IN
            IF Len(zeroed) - offset # value_len
                THEN Outcome("panic", <<>>, d, TRUE)
            ELSE Outcome("Ok", <<>>, CopySuffix(CopyPrefix(zeroed, d), offset, value), p)
        ELSE
            LET truncated == Truncate(d, value_len) IN
            IF offset > Len(truncated) THEN Outcome("panic", <<>>, truncated, TRUE)
            ELSE IF Len(truncated) - offset # value_len
                THEN Outcome("panic", <<>>, truncated, TRUE)
            ELSE Outcome("Ok", <<>>, CopySuffix(truncated, offset, value), p)

GattDescriptor1_write_value(d, p, value, options) ==
    IF p THEN Outcome("Failed", <<>>, d, p)
    ELSE
        LET offset == IF options.kind = "U16" THEN options.val ELSE 0
            data_len == Len(d)
            value_len == Len(value)
        IN
        IF offset + value_len > data_len THEN
            LET max_len == IF value_len < data_len THEN data_len ELSE value_len
                zeroed == Zeros(offset + max_len)
            IN
            IF data_len > Len(zeroed) THEN Outcome("panic", <<>>, d, TRUE)
            ELSE IF Len(zeroed) - offset # value_len
                THEN Outcome("panic", <<>>, d, TRUE)
            ELSE Outcome("Ok", <<>>, CopySuffix(CopyPrefix(zeroed, d), offset, value), p)
        ELSE
            LET truncated == Truncate(d, value_len) IN
            IF offset > Len(truncated) THEN Outcome("panic", <<>>, truncated, TRUE)
            ELSE IF Len(truncated) - offset # value_len
                THEN Outcome("panic", <<>>, truncated, TRUE)
            ELSE Outcome("Ok", <<>>, CopySuffix(truncated, offset, value), p)

(***************************************************************************)
(* Registration: the declaration handed to register_new.                   *)
(***************************************************************************)
MaxServices == 2
MaxChars == 2
MaxDescs == 1
MaxNodes == 4

\* What a characteristic or a descriptor is constructed with (new(uuid, data,
\* flags)); two of them share a UUID.
AttributeContents ==
    {[uuid |-> 1, data |-> <<>>, flags |-> <<"read">>],
     [uuid |-> 2, data |-> <<1>>, flags |-> <<"read", "write">>],
     [uuid |-> 1, data |-> <<1>>, flags |-> <<>>]}

\* GattService1::new(uuid, primary)
ServiceContents ==
    {[uuid |-> 1, primary |-> TRUE], [uuid |-> 2, primary |-> FALSE]}

\* Root path strings given to register_new: the first two are D-Bus object
\* paths, the third is not one (no leading '/').
Roots == {"/", "/org/bluez/example", "example"}

DescriptorDecls == AttributeContents

DescriptorSeqs(budget) == SeqsUpTo(DescriptorDecls, IF budget < MaxDescs THEN budget ELSE MaxDescs)

CharacteristicDecls(budget) ==
    IF budget < 1 THEN {}
    ELSE {[gatt_char |-> c, descriptors |-> ds] :
            c \in AttributeContents, ds \in DescriptorSeqs(budget - 1)}

RECURSIVE CharacteristicSeqsOf(_, _)
\* the sequences of n characteristic declarations of at most budget nodes
CharacteristicSeqsOf(n, budget) ==
    IF n = 0 THEN {<<>>}
    ELSE UNION {{<<c>> \o rest :
                    rest \in CharacteristicSeqsOf(n - 1, budget - 1 - Len(c.descriptors))} :
                c \in CharacteristicDecls(budget - (n - 1))}

CharacteristicSeqs(budget) ==
    UNION {CharacteristicSeqsOf(n, budget) :
            n \in 0 .. (IF budget < MaxChars THEN budget ELSE MaxChars)}

RECURSIVE NodesOfCharacteristics(_)
NodesOfCharacteristics(cs) ==
    IF cs = <<>> THEN 0
    ELSE 1 + Len(Head(cs).descriptors) + NodesOfCharacteristics(Tail(cs))

ServiceDecls(budget) ==
    IF budget < 1 THEN {}
    ELSE {[service |-> sv, characteristics |-> cs] :
            sv \in ServiceContents, cs \in CharacteristicSeqs(budget - 1)}

RECURSIVE ServiceSeqsOf(_, _)
ServiceSeqsOf(n, budget) ==
    IF n = 0 THEN {<<>>}
    ELSE UNION {{<<sv>> \o rest :
                    rest \in ServiceSeqsOf(n - 1,
                                budget - 1 - NodesOfCharacteristics(sv.characteristics))} :
                sv \in ServiceDecls(budget - (n - 1))}

\* The declarations of at most MaxNodes attributes
Declarations ==
    UNION {ServiceSeqsOf(n, MaxNodes) :
            n \in 0 .. (IF MaxNodes < MaxServices THEN MaxNodes ELSE MaxServices)}

(***************************************************************************)
(* The bus as register_new sees it.  conn.objects is the object server,    *)
(* conn.registrar the calls that reached org.bluez.GattManager1, and       *)
(* conn.calls counts the fallible bus operations made so far; the          *)
(* fail_at-th of them fails (fail_at = 0: none does).                      *)
(***************************************************************************)
NewConnection == [calls |-> 0, objects |-> <<>>, registrar |-> <<>>]

\* An object published at a path: its interface, the fields of the struct the
\* interface serves, and the position of its declaration (<<i>>, <<i, j>> or
\* <<i, j, k>>, zero-based; <<>> for the application).
Object(path, interface, pos, uuid, parent, children) ==
    [path |-> path, interface |-> interface, pos |-> pos, uuid |-> uuid,
     parent |-> parent, children |-> children]

\* The GattApplication1 object: it owns the managed-objects map
ApplicationObject(path, managed_objects) ==
    [path |-> path, interface |-> "org.freedesktop.DBus.ObjectManager",
     pos |-> <<>>, managed_objects |-> managed_objects]

\* A faulty variant of At: a failed publication withdraws the objects published
\* before it
AtRollingBack(conn, object, fail_at) ==
    IF conn.calls + 1 = fail_at
    THEN [ok |-> FALSE, conn |-> [conn EXCEPT !.calls = @ + 1, !.objects = <<>>]]
    ELSE [ok |-> TRUE,
          conn |-> [conn EXCEPT !.calls = @ + 1, !.objects = Append(@, object)]]

\* object_server().at(path, object)
At(conn, object, fail_at) ==
    IF conn.calls + 1 = fail_at
    THEN [ok |-> FALSE, conn |-> [conn EXCEPT !.calls = @ + 1]]
    ELSE [ok |-> TRUE,
          conn |-> [conn EXCEPT !.calls = @ + 1, !.objects = Append(@, object)]]

\* GattManager1Proxy::builder(..).path(..)?.build().await?
ProxyBuild(conn, fail_at) ==
    [ok |-> conn.calls + 1 # fail_at, conn |-> [conn EXCEPT !.calls = @ + 1]]

\* proxy.register_application(path, {}) / proxy.unregister_application(path):
\* the call reaches the registrar, which accepts or rejects it
RegistrarCall(conn, method, path, fail_at) ==
    LET ok == conn.calls + 1 # fail_at IN
    [ok |-> ok,
     conn |-> [conn EXCEPT
                !.calls = @ + 1,
                !.registrar = Append(@, [method |-> method, path |-> path,
                                         accepted |-> ok,
                                         published |-> Len(conn.objects)])]]

\* OwnedObjectPath::try_from on a root string
RootPathValid(text) == text \in {"/", "/org/bluez/example"}

\* OwnedObjectPath::try_from(format!("{parent}/name{count}")) for an object path
\* parent: "//name0" under the root path "/" has an empty element and is
\* refused, every other parent gives an object path
ChildPathValid(parent) == parent # "/"

\* format!("{path}/service{count}")
ServicePath(path, count) == path \o "/service" \o ToString(count)

\* A faulty variant of CharacteristicPath: children counted from one
CharacteristicPathFromOne(service_path, count) ==
    service_path \o "/characteristic" \o ToString(count + 1)

\* format!("{service_path}/characteristic{count}")
CharacteristicPath(service_path, count) ==
    service_path \o "/characteristic" \o ToString(count)

\* format!("{path}/descriptor{count}")
DescriptorPath(path, count) == path \o "/descriptor" \o ToString(count)

\* HashMap / BTreeMap insert: a later value replaces the one under the same key
Insert(map, key, value) == (key :> value) @@ map

(***************************************************************************)
(* Results of the register functions: Ok(handle) or Err, with the          *)
(* connection as the call left it.                                         *)
(***************************************************************************)
Failure(conn) == [ok |-> FALSE, conn |-> conn, handle |-> <<>>]

\* A faulty variant of Registered: the result of at(..) is dropped instead of
\* propagated with ?
RegisteredUnchecked(published, handle) ==
    [ok |-> TRUE, conn |-> published.conn, handle |-> handle]

\* object_server().at(..)?, then Ok(handle)
Registered(published, handle) ==
    IF ~published.ok THEN Failure(published.conn)
    ELSE [ok |-> TRUE, conn |-> published.conn, handle |-> handle]

(***************************************************************************)
(* GattDescriptor1                                                         *)
(***************************************************************************)
\* A faulty variant of data: the handle is given a buffer of its own, a copy of
\* the contents (pos with 1 appended names the copy)
GattDescriptor1_data_copied(pos) == Append(pos, 1)

\* self.data(): a clone of the Arc, the buffer the struct was constructed
\* with (named by the position of the declaration)
GattDescriptor1_data(pos) == pos

\* The Mutex is fresh at registration, so the lock is taken and Value is set.
GattDescriptor1_property_map(self) ==
    [UUID |-> self.uuid, Characteristic |-> self.char_path,
     Value |-> self.data, Flags |-> self.flags]

GattDescriptor1_register(decl, path, characteristic_path, pos, conn, fail_at) ==
    LET self == [uuid |-> decl.uuid, data |-> decl.data, flags |-> decl.flags,
                 char_path |-> characteristic_path]
    IN
    Registered(
        At(conn, Object(path, "org.bluez.GattDescriptor1", pos, self.uuid,
                        self.char_path, <<>>), fail_at),
        [data |-> GattDescriptor1_data(pos), interface |-> path,
         property_map |-> GattDescriptor1_property_map(self), path |-> path])

(***************************************************************************)
(* GattCharacteristic1                                                     *)
(***************************************************************************)
\* An Option<bool> field is <<>> (None) or <<b>> (Some(b)); the entry is
\* inserted only for Some
OptionalEntry(name, option) ==
    IF option = <<>> THEN <<>> ELSE name :> option[1]

GattCharacteristic1_property_map(self) ==
    [UUID |-> self.uuid, Service |-> self.service_path,
     Flags |-> self.flags, Primary |-> TRUE]
        @@ OptionalEntry("WriteAcquired", self.write_acquired)
        @@ OptionalEntry("NotifyAcquired", self.notify_acquired)
        @@ OptionalEntry("Notifying", self.notifying)

\* self.descriptors.push(descriptor_path); descriptor_handles.insert(uuid,
\* descriptor.register(..)?)
DescriptorInserted(st, descriptor, descriptor_path, r) ==
    IF ~r.ok THEN [st EXCEPT !.ok = FALSE, !.conn = r.conn]
    ELSE [ok |-> TRUE, conn |-> r.conn,
          descriptors |-> Append(st.descriptors, descriptor_path),
          handles |-> Insert(st.handles, descriptor.uuid, r.handle)]

\* one iteration of the loop over descriptors.into_iter().enumerate()
DescriptorStep(descriptor, count, path, pos, st, fail_at) ==
    IF ~ChildPathValid(path) THEN [st EXCEPT !.ok = FALSE]
    ELSE DescriptorInserted(st, descriptor, DescriptorPath(path, count),
            GattDescriptor1_register(descriptor, DescriptorPath(path, count), path,
                                     Append(pos, count), st.conn, fail_at))

RECURSIVE RegisterDescriptors(_, _, _, _, _, _)
\* the loop; st carries the connection, self.descriptors and
\* descriptor_handles, and an Err leaves it (the ? operator)
RegisterDescriptors(descriptors, count, path, pos, st, fail_at) ==
    IF ~st.ok \/ count >= Len(descriptors) THEN st
    ELSE RegisterDescriptors(descriptors, count + 1, path, pos,
            DescriptorStep(descriptors[count + 1], count, path, pos, st, fail_at),
            fail_at)

\* The capability fields of the GattCharacteristic1 struct
Capabilities(self) ==
    [notifying |-> self.notifying, notify_acquired |-> self.notify_acquired,
     write_acquired |-> self.write_acquired]

\* A faulty variant of CharacteristicPublish: the characteristic is published
\* whatever became of its descriptors
CharacteristicPublishRegardless(self, path, pos, loop, fail_at) ==
    Registered(
        At(loop.conn,
           Object(path, "org.bluez.GattCharacteristic1", pos, self.uuid,
                  self.service_path, loop.descriptors) @@ Capabilities(self),
           fail_at),
        [data |-> pos, interface |-> path,
         property_map |-> GattCharacteristic1_property_map(self), path |-> path,
         descriptors |-> loop.handles])

\* after the loop: publish the characteristic and return its handle
CharacteristicPublish(self, path, pos, loop, fail_at) ==
    IF ~loop.ok THEN Failure(loop.conn)
    ELSE Registered(
            At(loop.conn,
               Object(path, "org.bluez.GattCharacteristic1", pos, self.uuid,
                      self.service_path, loop.descriptors) @@ Capabilities(self),
               fail_at),
            [data |-> pos, interface |-> path,
             property_map |-> GattCharacteristic1_property_map(self), path |-> path,
             descriptors |-> loop.handles])

GattCharacteristic1_register(decl, path, service_path, descriptors, pos, conn, fail_at) ==
    CharacteristicPublish(
        [uuid |-> decl.uuid, data |-> decl.data, flags |-> decl.flags,
         notifying |-> <<>>, notify_acquired |-> <<>>, write_acquired |-> <<>>,
         service_path |-> service_path],
        path, pos,
        RegisterDescriptors(descriptors, 0, path, pos,
            [ok |-> TRUE, conn |-> conn, descriptors |-> <<>>, handles |-> <<>>],
            fail_at),
        fail_at)

(***************************************************************************)
(* GattService1                                                            *)
(***************************************************************************)
GattService1_property_map(self) == [UUID |-> self.uuid, Primary |-> self.primary]

\* service_handle.characteristics.insert(gatt_char.uuid, gatt_char.register(..)?)
CharacteristicInserted(st, gatt_char, r) ==
    IF ~r.ok THEN [st EXCEPT !.ok = FALSE, !.conn = r.conn]
    ELSE [ok |-> TRUE, conn |-> r.conn,
          handles |-> Insert(st.handles, gatt_char.uuid, r.handle)]

\* one iteration of the loop over characteristics.into_iter().enumerate()
CharacteristicStep(c, count, service_path, pos, st, fail_at) ==
    IF ~ChildPathValid(service_path) THEN [st EXCEPT !.ok = FALSE]
    ELSE CharacteristicInserted(st, c.gatt_char,
            GattCharacteristic1_register(c.gatt_char,
                CharacteristicPath(service_path, count), service_path,
                c.descriptors, Append(pos, count), st.conn, fail_at))

RECURSIVE RegisterCharacteristics(_, _, _, _, _, _)
RegisterCharacteristics(characteristics, count, service_path, pos, st, fail_at) ==
    IF ~st.ok \/ count >= Len(characteristics) THEN st
    ELSE RegisterCharacteristics(characteristics, count + 1, service_path, pos,
            CharacteristicStep(characteristics[count + 1], count, service_path, pos,
                               st, fail_at),
            fail_at)

\* after the loop: publish the service and return its handle
ServicePublish(self, service_path, pos, loop, fail_at) ==
    IF ~loop.ok THEN Failure(loop.conn)
    ELSE Registered(
            At(loop.conn, Object(service_path, "org.bluez.GattService1", pos, self.uuid,
                                 "", <<>>), fail_at),
            [characteristics |-> loop.handles, uuid |-> self.uuid,
             primary |-> self.primary,
             property_map |-> GattService1_property_map(self), path |-> service_path])

GattService1_register(self, characteristics, conn, service_path, pos, fail_at) ==
    ServicePublish(self, service_path, pos,
        RegisterCharacteristics(characteristics, 0, service_path, pos,
            [ok |-> TRUE, conn |-> conn, handles |-> <<>>], fail_at),
        fail_at)

(***************************************************************************)
(* GattApplication1                                                        *)
(***************************************************************************)
RECURSIVE InKeyOrder(_)
\* BTreeMap::iter(): the values in ascending key order
InKeyOrder(map) ==
    IF DOMAIN map = {} THEN <<>>
    ELSE
        LET k == CHOOSE k \in DOMAIN map : \A j \in DOMAIN map : k <= j IN
        <<map[k]>> \o InKeyOrder([j \in DOMAIN map \ {k} |-> map[j]])

RECURSIVE IndexDescriptors(_, _)
IndexDescriptors(descs, managed_objects) ==
    IF descs = <<>> THEN managed_objects
    ELSE IndexDescriptors(Tail(descs),
            Insert(managed_objects, Head(descs).path,
                   "org.bluez.GattDescriptor1" :> Head(descs).property_map))

RECURSIVE IndexCharacteristics(_, _)
IndexCharacteristics(chars, managed_objects) ==
    IF chars = <<>> THEN managed_objects
    ELSE IndexCharacteristics(Tail(chars),
            IndexDescriptors(InKeyOrder(Head(chars).descriptors),
                Insert(managed_objects, Head(chars).path,
                       "org.bluez.GattCharacteristic1" :> Head(chars).property_map)))

RECURSIVE IndexServices(_, _)
\* the loop over &serv_handles that fills application.managed_objects
IndexServices(servs, managed_objects) ==
    IF servs = <<>> THEN managed_objects
    ELSE IndexServices(Tail(servs),
            IndexCharacteristics(InKeyOrder(Head(servs).characteristics),
                Insert(managed_objects, Head(servs).path,
                       "org.bluez.GattService1" :> Head(servs).property_map)))

\* serv_handles.push(serv.0.register(..).await?)
ServicePushed(st, r) ==
    IF ~r.ok THEN [st EXCEPT !.ok = FALSE, !.conn = r.conn]
    ELSE [ok |-> TRUE, conn |-> r.conn,
          serv_handles |-> Append(st.serv_handles, r.handle)]

\* one iteration of the loop over services.into_iter().enumerate()
ServiceStep(serv, count, path, st, fail_at) ==
    IF ~ChildPathValid(path) THEN [st EXCEPT !.ok = FALSE]
    ELSE ServicePushed(st,
            GattService1_register(serv.service, serv.characteristics, st.conn,
                                  ServicePath(path, count), <<count>>, fail_at))

RECURSIVE RegisterServices(_, _, _, _, _)
RegisterServices(services, count, path, st, fail_at) ==
    IF ~st.ok \/ count >= Len(services) THEN st
    ELSE RegisterServices(services, count + 1, path,
            ServiceStep(services[count + 1], count, path, st, fail_at), fail_at)

\* proxy.register_application(&path, ..).await?, then Ok(GattApplicationHandle)
ApplicationRegistered(path, serv_handles, registered) ==
    IF ~registered.ok THEN Failure(registered.conn)
    ELSE [ok |-> TRUE, conn |-> registered.conn,
          handle |-> [services |-> serv_handles, path |-> path]]

\* A faulty variant of ApplicationProxied: RegisterApplication is called again
\* after the first call
ApplicationProxiedTwice(path, serv_handles, proxy, fail_at) ==
    IF ~proxy.ok THEN Failure(proxy.conn)
    ELSE ApplicationRegistered(path, serv_handles,
            RegistrarCall(
                RegistrarCall(proxy.conn, "RegisterApplication", path, fail_at).conn,
                "RegisterApplication", path, fail_at))

\* the proxy is built, then RegisterApplication is called
ApplicationProxied(path, serv_handles, proxy, fail_at) ==
    IF ~proxy.ok THEN Failure(proxy.conn)
    ELSE ApplicationRegistered(path, serv_handles,
            RegistrarCall(proxy.conn, "RegisterApplication", path, fail_at))

\* object_server().at(&path, application).await?
ApplicationPublished(path, serv_handles, published, fail_at) ==
    IF ~published.ok THEN Failure(published.conn)
    ELSE ApplicationProxied(path, serv_handles,
            ProxyBuild(published.conn, fail_at), fail_at)

\* after the loop over services: fill managed_objects and publish
ApplicationIndexed(path, loop, fail_at) ==
    IF ~loop.ok THEN Failure(loop.conn)
    ELSE ApplicationPublished(path, loop.serv_handles,
            At(loop.conn,
               ApplicationObject(path, IndexServices(loop.serv_handles, <<>>)),
               fail_at),
            fail_at)

GattApplication1_register_new(path, connection, services, fail_at) ==
    IF ~RootPathValid(path) THEN Failure(connection)
    ELSE ApplicationIndexed(path,
            RegisterServices(services, 0, path,
                [ok |-> TRUE, conn |-> connection, serv_handles |-> <<>>], fail_at),
            fail_at)

\* A faulty variant of unregister: a rejected call is made a second time
GattApplicationHandle_unregister_retry(self, connection, fail_at) ==
    LET proxy == ProxyBuild(connection, fail_at) IN
    IF ~proxy.ok THEN [ok |-> FALSE, conn |-> proxy.conn]
    ELSE
        LET first == RegistrarCall(proxy.conn, "UnregisterApplication", self.path,
                                   fail_at)
        IN
        IF first.ok THEN [ok |-> TRUE, conn |-> first.conn]
        ELSE [ok |-> TRUE,
              conn |-> RegistrarCall(first.conn, "UnregisterApplication", self.path,
                                     fail_at).conn]

\* GattApplicationHandle::unregister
GattApplicationHandle_unregister(self, connection, fail_at) ==
    LET proxy == ProxyBuild(connection, fail_at) IN
    IF ~proxy.ok THEN [ok |-> FALSE, conn |-> proxy.conn]
    ELSE [ok |-> proxy.conn.calls + 1 # fail_at,
          conn |-> RegistrarCall(proxy.conn, "UnregisterApplication", self.path,
                                 fail_at).conn]

\* A faulty variant of get_managed_objects: a descriptor's Value entry is read
\* from its value buffer at the time of the call
GattApplication1_get_managed_objects_live(self) ==
    [path \in DOMAIN self.managed_objects |->
        LET at == {object_server[n].pos :
                    n \in {m \in 1 .. Len(object_server) :
                                object_server[m].path = path}} \cap DOMAIN stores
        IN
        IF at # {} /\ "org.bluez.GattDescriptor1" \in DOMAIN self.managed_objects[path]
        THEN "org.bluez.GattDescriptor1" :>
                [self.managed_objects[path]["org.bluez.GattDescriptor1"]
                    EXCEPT !.Value = stores[CHOOSE pos \in at : TRUE].data]
        ELSE self.managed_objects[path]]

\* GattApplication1::get_managed_objects
GattApplication1_get_managed_objects(self) == self.managed_objects

NoRegistration ==
    [status |-> "none", path |-> "", services |-> <<>>, fail_at |-> 0,
     handle |-> <<>>, calls |-> 0, unregister |-> "none", managed |-> <<>>]

(***************************************************************************)
(* Spec: requests served by one attribute.                                 *)
(***************************************************************************)
NoRequest ==
    [op |-> "none", value |-> <<>>, options |-> [kind |-> "absent", val |-> 0],
     before |-> <<>>, lock_ok |-> TRUE, res |-> "none", ret |-> <<>>]

\* GattCharacteristic1::new / GattDescriptor1::new: data.unwrap_or_default()
\* in a fresh (unpoisoned) Mutex.
Init ==
    /\ kind \in {"GattCharacteristic1", "GattDescriptor1"}
    /\ overflow_checks \in BOOLEAN
    /\ data \in Buffers
    /\ poisoned = FALSE
    /\ last = NoRequest
    /\ object_server = <<>>
    /\ registrar = <<>>
    /\ reg = NoRegistration
    /\ stores = <<>>
    /\ threads = <<>>

Served(op, value, options, out) ==
    /\ data' = out.data
    /\ poisoned' = out.poisoned
    /\ last' = [op |-> op, value |-> value, options |-> options, before |-> data,
                lock_ok |-> ~poisoned, res |-> out.res, ret |-> out.ret]
    /\ UNCHANGED <<kind, overflow_checks>>
    /\ UNCHANGED reg_vars
    /\ UNCHANGED serve_vars

CharacteristicReadValue ==
    /\ kind = "GattCharacteristic1"
    /\ \E options \in OptionsSet :
        Served("ReadValue", <<>>, options,
               GattCharacteristic1_read_value(data, poisoned, options, overflow_checks))

CharacteristicWriteValue ==
    /\ kind = "GattCharacteristic1"
    /\ \E value \in Values, options \in OptionsSet :
        Served("WriteValue", value, options,
               GattCharacteristic1_write_value(data, poisoned, value, options))

DescriptorReadValue ==
    /\ kind = "GattDescriptor1"
    /\ \E options \in OptionsSet :
        Served("ReadValue", <<>>, options,
               GattDescriptor1_read_value(data, poisoned, options, overflow_checks))

DescriptorWriteValue ==
    /\ kind = "GattDescriptor1"
    /\ \E value \in Values, options \in OptionsSet :
        Served("WriteValue", value, options,
               GattDescriptor1_write_value(data, poisoned, value, options))

Next ==
    \/ CharacteristicReadValue
    \/ CharacteristicWriteValue
    \/ DescriptorReadValue
    \/ DescriptorWriteValue

Spec == Init /\ [][Next]_vars

(***************************************************************************)
(* SpecReg: one register_new on a fresh connection, then the calls the     *)
(* handle and the published application object serve.                      *)
(***************************************************************************)
MaxRegistrarCalls == 3

\* the fallible bus operations of the largest registration: one publish per
\* attribute, the application's, the proxy and the registrar call
MaxCalls == MaxNodes + 3

InitReg ==
    /\ kind = "GattCharacteristic1"
    /\ overflow_checks = FALSE
    /\ data = <<>>
    /\ poisoned = FALSE
    /\ last = NoRequest
    /\ object_server = <<>>
    /\ registrar = <<>>
    /\ reg = NoRegistration
    /\ stores = <<>>
    /\ threads = <<>>

RegisterNew ==
    /\ reg.status = "none"
    /\ \E path \in Roots, services \in Declarations, fail_at \in 0 .. MaxCalls :
        LET r == GattApplication1_register_new(path, NewConnection, services, fail_at) IN
        /\ object_server' = r.conn.objects
        /\ registrar' = r.conn.registrar
        /\ reg' = [status |-> IF r.ok THEN "Ok" ELSE "Err", path |-> path,
                   services |-> services, fail_at |-> fail_at, handle |-> r.handle,
                   calls |-> r.conn.calls, unregister |-> "none", managed |-> <<>>]
    /\ UNCHANGED store_vars
    /\ UNCHANGED serve_vars

Unregister ==
    /\ reg.status = "Ok"
    /\ Len(registrar) < MaxRegistrarCalls
    /\ \E fail_at \in 0 .. 2 :
        LET r == GattApplicationHandle_unregister(reg.handle,
                    [calls |-> 0, objects |-> object_server, registrar |-> registrar],
                    fail_at)
        IN
        /\ object_server' = r.conn.objects
        /\ registrar' = r.conn.registrar
        /\ reg' = [reg EXCEPT !.unregister = IF r.ok THEN "Ok" ELSE "Err"]
    /\ UNCHANGED store_vars
    /\ UNCHANGED serve_vars

\* GetManagedObjects, served by the application object once it is published;
\* reg.managed holds the reply of the last call (<<>> before any call)
GetManagedObjects ==
    /\ \E n \in 1 .. Len(object_server) :
        /\ object_server[n].interface = "org.freedesktop.DBus.ObjectManager"
        /\ reg' = [reg EXCEPT !.managed =
                        <<GattApplication1_get_managed_objects(object_server[n])>>]
    /\ UNCHANGED <<object_server, registrar>>
    /\ UNCHANGED store_vars
    /\ UNCHANGED serve_vars

NextReg ==
    \/ RegisterNew
    \/ Unregister
    \/ GetManagedObjects

SpecReg == InitReg /\ [][NextReg]_vars

(***************************************************************************)
(* GattCharacteristic1: the methods and property getters besides ReadValue *)
(* and WriteValue.  They take &self: none of them can change the struct.   *)
(***************************************************************************)
Reply(res, ret) == [res |-> res, ret |-> ret]

GattCharacteristic1_acquire_notify(self) == Reply("NotSupported", <<>>)

\* A faulty variant of acquire_write: the request is granted
GattCharacteristic1_acquire_write_granted(self) == Reply("Ok", <<>>)

GattCharacteristic1_acquire_write(self) == Reply("NotSupported", <<>>)

GattCharacteristic1_confirm(self) == Reply("Ok", <<>>)

GattCharacteristic1_start_notify(self) == Reply("Ok", <<>>)

GattCharacteristic1_stop_notify(self) == Reply("Ok", <<>>)

\* The Service property getter: Ok(self.service_path.clone())
GattCharacteristic1_service(self) == Reply("Ok", self.parent)

\* The Characteristic property getter of a descriptor:
\* Ok(OwnedObjectPath::default()), the path "/"
GattDescriptor1_characteristic(self) == Reply("Ok", "/")

\* unused_property!: return Err(zbus::fdo::Error::UnknownProperty(detail))
unused_property == Reply("UnknownProperty", <<>>)

\* A faulty variant of the notifying getter: an unset property reads as false
GattCharacteristic1_notifying_or_false(self) ==
    IF self.notifying = <<>> THEN Reply("Ok", <<FALSE>>)
    ELSE Reply("Ok", self.notifying)

\* option.map_or_else(|| { unused_property!(..) }, Ok)
GattCharacteristic1_notify_acquired(self) ==
    IF self.notify_acquired = <<>> THEN unused_property
    ELSE Reply("Ok", self.notify_acquired)

GattCharacteristic1_notifying(self) ==
    IF self.notifying = <<>> THEN unused_property
    ELSE Reply("Ok", self.notifying)

GattCharacteristic1_write_acquired(self) ==
    IF self.write_acquired = <<>> THEN unused_property
    ELSE Reply("Ok", self.write_acquired)

(***************************************************************************)
(* SpecServe: a registered application serving requests.  The declaration  *)
(* is one service with one read/write characteristic that has one          *)
(* descriptor (of any content); stores                                     *)
(* holds the two Arc<Mutex<Vec<u8>>> the structs and the handles share,    *)
(* by the position of the attribute.  last is the last request served:     *)
(* its method, the position of the attribute, the reply of a property      *)
(* getter, and whether a notify / acquire method has been served so far.   *)
(***************************************************************************)
ServeRoot == "/org/bluez/example"

ServeDeclarations ==
    {services \in Declarations :
        /\ Len(services) = 1
        /\ services[1].service.primary
        /\ Len(services[1].characteristics) = 1
        /\ services[1].characteristics[1].gatt_char.flags = <<"read", "write">>
        /\ Len(services[1].characteristics[1].descriptors) = 1}

\* The positions of the characteristics and descriptors of a declaration
AttributePositions(services) ==
    LET S == 0 .. Len(services) - 1
        C(i) == 0 .. Len(services[i + 1].characteristics) - 1
        D(i, j) == 0 .. Len(services[i + 1].characteristics[j + 1].descriptors) - 1
    IN
    UNION {{<<i, j>> : j \in C(i)} : i \in S}
        \cup UNION {UNION {{<<i, j, k>> : k \in D(i, j)} : j \in C(i)} : i \in S}

\* The data an attribute was constructed with
DeclaredData(services, pos) ==
    IF Len(pos) = 2 THEN services[pos[1] + 1].characteristics[pos[2] + 1].gatt_char.data
    ELSE services[pos[1] + 1].characteristics[pos[2] + 1].descriptors[pos[3] + 1].data

\* Arc::new(Mutex::new(data.unwrap_or_default())) of every attribute
StoresOf(services) ==
    [pos \in AttributePositions(services) |->
        [data |-> DeclaredData(services, pos), poisoned |-> FALSE]]

\* The object published at the position pos
ObjectAt(pos) ==
    object_server[CHOOSE n \in 1 .. Len(object_server) : object_server[n].pos = pos]

InitServe ==
    /\ kind = "GattCharacteristic1"
    /\ overflow_checks \in BOOLEAN
    /\ data = <<>>
    /\ poisoned = FALSE
    /\ threads = <<>>
    /\ \E services \in ServeDeclarations :
        LET r == GattApplication1_register_new(ServeRoot, NewConnection, services, 0) IN
        /\ object_server = r.conn.objects
        /\ registrar = r.conn.registrar
        /\ stores = StoresOf(services)
        /\ reg = [status |-> "Ok", path |-> ServeRoot, services |-> services,
                  fail_at |-> 0, handle |-> r.handle, calls |-> r.conn.calls,
                  unregister |-> "none",
                  managed |-> <<GattApplication1_get_managed_objects(
                                    r.conn.objects[Len(r.conn.objects)])>>]
    /\ last = [op |-> "GetManagedObjects", at |-> <<>>, reply |-> Reply("Ok", <<>>),
               notified |-> FALSE]

\* A ReadValue or WriteValue served by the attribute at pos
ServedAt(op, pos, out) ==
    /\ stores' = [stores EXCEPT ![pos] = [data |-> out.data, poisoned |-> out.poisoned]]
    /\ last' = [op |-> op, at |-> pos, reply |-> Reply("Ok", <<>>),
                notified |-> last.notified]
    /\ UNCHANGED <<kind, overflow_checks, data, poisoned, threads>>
    /\ UNCHANGED reg_vars

ServeCharacteristicReadValue ==
    \E pos \in DOMAIN stores, options \in OptionsSet :
        /\ Len(pos) = 2
        /\ ServedAt("ReadValue", pos,
                    GattCharacteristic1_read_value(stores[pos].data, stores[pos].poisoned,
                                                   options, overflow_checks))

ServeCharacteristicWriteValue ==
    \E pos \in DOMAIN stores, value \in Values, options \in OptionsSet :
        /\ Len(pos) = 2
        /\ ServedAt("WriteValue", pos,
                    GattCharacteristic1_write_value(stores[pos].data, stores[pos].poisoned,
                                                    value, options))

ServeDescriptorReadValue ==
    \E pos \in DOMAIN stores, options \in OptionsSet :
        /\ Len(pos) = 3
        /\ ServedAt("ReadValue", pos,
                    GattDescriptor1_read_value(stores[pos].data, stores[pos].poisoned,
                                               options, overflow_checks))

ServeDescriptorWriteValue ==
    \E pos \in DOMAIN stores, value \in Values, options \in OptionsSet :
        /\ Len(pos) = 3
        /\ ServedAt("WriteValue", pos,
                    GattDescriptor1_write_value(stores[pos].data, stores[pos].poisoned,
                                                value, options))

\* A method or property getter of a characteristic that leaves the buffer alone
Replied(op, pos, reply, notified) ==
    /\ Len(pos) = 2
    /\ last' = [op |-> op, at |-> pos, reply |-> reply, notified |-> notified]
    /\ UNCHANGED <<kind, overflow_checks, data, poisoned>>
    /\ UNCHANGED reg_vars
    /\ UNCHANGED serve_vars

AcquireNotify ==
    \E pos \in DOMAIN stores :
        Replied("AcquireNotify", pos, GattCharacteristic1_acquire_notify(ObjectAt(pos)), TRUE)

AcquireWrite ==
    \E pos \in DOMAIN stores :
        Replied("AcquireWrite", pos, GattCharacteristic1_acquire_write(ObjectAt(pos)), TRUE)

Confirm ==
    \E pos \in DOMAIN stores :
        Replied("Confirm", pos, GattCharacteristic1_confirm(ObjectAt(pos)), TRUE)

StartNotify ==
    \E pos \in DOMAIN stores :
        Replied("StartNotify", pos, GattCharacteristic1_start_notify(ObjectAt(pos)), TRUE)

StopNotify ==
    \E pos \in DOMAIN stores :
        Replied("StopNotify", pos, GattCharacteristic1_stop_notify(ObjectAt(pos)), TRUE)

GetNotifyAcquired ==
    \E pos \in DOMAIN stores :
        Replied("NotifyAcquired", pos, GattCharacteristic1_notify_acquired(ObjectAt(pos)),
                last.notified)

GetNotifying ==
    \E pos \in DOMAIN stores :
        Replied("Notifying", pos, GattCharacteristic1_notifying(ObjectAt(pos)),
                last.notified)

GetWriteAcquired ==
    \E pos \in DOMAIN stores :
        Replied("WriteAcquired", pos, GattCharacteristic1_write_acquired(ObjectAt(pos)),
                last.notified)

\* The handles of the characteristics and descriptors that services(),
\* characteristics() and descriptors() reach from an application handle
AttributeHandles(handle) ==
    LET chars == UNION {{handle.services[i].characteristics[u] :
                            u \in DOMAIN handle.services[i].characteristics} :
                        i \in 1 .. Len(handle.services)}
    IN
    chars \cup UNION {{c.descriptors[u] : u \in DOMAIN c.descriptors} : c \in chars}

\* The object published at a path
ObjectAtPath(path) ==
    object_server[CHOOSE n \in 1 .. Len(object_server) : object_server[n].path = path]

\* handle.data().lock(), by the application: the contents of the buffer
\* behind a handle, or the PoisonError of a poisoned lock
HandleRead ==
    \E h \in AttributeHandles(reg.handle) :
        /\ last' = [op |-> "HandleRead", at |-> ObjectAtPath(h.path).pos,
                    reply |-> IF stores[h.data].poisoned THEN Reply("Poisoned", <<>>)
                              ELSE Reply("Ok", stores[h.data].data),
                    notified |-> last.notified]
        /\ UNCHANGED <<kind, overflow_checks, data, poisoned>>
        /\ UNCHANGED reg_vars
        /\ UNCHANGED serve_vars

\* *handle.data().lock().unwrap() = value, by the application
HandleWrite ==
    \E h \in AttributeHandles(reg.handle), value \in Values :
        /\ ~stores[h.data].poisoned
        /\ stores' = [stores EXCEPT ![h.data].data = value]
        /\ last' = [op |-> "HandleWrite", at |-> ObjectAtPath(h.path).pos,
                    reply |-> Reply("Ok", value), notified |-> last.notified]
        /\ UNCHANGED <<kind, overflow_checks, data, poisoned, threads>>
        /\ UNCHANGED reg_vars

\* GetManagedObjects, served by the application object
ServeGetManagedObjects ==
    /\ \E n \in 1 .. Len(object_server) :
        /\ object_server[n].interface = "org.freedesktop.DBus.ObjectManager"
        /\ reg' = [reg EXCEPT !.managed =
                        <<GattApplication1_get_managed_objects(object_server[n])>>]
    /\ last' = [op |-> "GetManagedObjects", at |-> <<>>, reply |-> Reply("Ok", <<>>),
                notified |-> last.notified]
    /\ UNCHANGED <<kind, overflow_checks, data, poisoned>>
    /\ UNCHANGED <<object_server, registrar>>
    /\ UNCHANGED serve_vars

NextServe ==
    \/ ServeCharacteristicReadValue
    \/ ServeCharacteristicWriteValue
    \/ ServeDescriptorReadValue
    \/ ServeDescriptorWriteValue
    \/ AcquireNotify
    \/ AcquireWrite
    \/ Confirm
    \/ StartNotify
    \/ StopNotify
    \/ GetNotifyAcquired
    \/ GetNotifying
    \/ GetWriteAcquired
    \/ ServeGetManagedObjects
    \/ HandleRead
    \/ HandleWrite

SpecServe == InitServe /\ [][NextServe]_vars

(***************************************************************************)
(* SpecLock: the attributes of a registered application serving requests   *)
(* on concurrent threads.  A request arrives for an attribute, takes the   *)
(* attribute's Mutex (Lock), runs the handler's body holding the guard,    *)
(* and drops the guard when the handler returns or unwinds.  The body of   *)
(* read_value and the growth branch of write_value change the buffer in    *)
(* one assignment; the other branch of write_value truncates the buffer    *)
(* and then copies the value in, two steps between which the buffer is     *)
(* half written.  The arguments of a request are drawn at the step that    *)
(* first uses them.  stores[at].committed is the buffer as the last        *)
(* handler that held the guard left it.                                    *)
(***************************************************************************)
MaxThreads == 2

Threads == 1 .. MaxThreads

\* held: the attributes whose MutexGuard the thread's handler holds
Idle ==
    [pc |-> "idle", op |-> "none", at |-> <<>>, value |-> <<>>,
     options |-> [kind |-> "absent", val |-> 0], held |-> {}]

\* thread t holds the MutexGuard of the attribute at
Holds(t, at) == at \in threads[t].held

\* A faulty variant of LocksOf: a handler that locks its own buffer and then,
\* holding that guard, the buffer of the attribute next to it (a descriptor
\* its characteristic's, a characteristic its first descriptor's)
LocksOfWithNeighbour(at) ==
    <<at, IF Len(at) = 3 THEN SubSeq(at, 1, 2) ELSE Append(at, 0)>>

\* The locks a handler of the attribute at takes, in order: self.data.lock()
\* and no other
LocksOf(at) == <<at>>

\* A faulty variant of MutexFree: a lock that lets a reader in while a writer
\* holds it
MutexFreeForReaders(at, op) ==
    \/ op = "ReadValue"
    \/ \A t \in Threads : ~Holds(t, at)

\* Mutex::lock returns only when no thread holds the guard
MutexFree(at, op) == \A t \in Threads : ~Holds(t, at)

InitLock ==
    /\ kind = "GattCharacteristic1"
    /\ overflow_checks \in BOOLEAN
    /\ data = <<>>
    /\ poisoned = FALSE
    /\ last = NoRequest
    /\ threads = [t \in Threads |-> Idle]
    /\ \E services \in ServeDeclarations :
        LET r == GattApplication1_register_new(ServeRoot, NewConnection, services, 0) IN
        /\ object_server = r.conn.objects
        /\ registrar = r.conn.registrar
        /\ stores = [pos \in AttributePositions(services) |->
                        [data |-> DeclaredData(services, pos), poisoned |-> FALSE,
                         committed |-> DeclaredData(services, pos)]]
        /\ reg = [status |-> "Ok", path |-> ServeRoot, services |-> services,
                  fail_at |-> 0, handle |-> r.handle, calls |-> r.conn.calls,
                  unregister |-> "none", managed |-> <<>>]

LockFrame ==
    /\ UNCHANGED store_vars
    /\ UNCHANGED reg_vars

\* a ReadValue or WriteValue request for an attribute reaches its handler
Arrive(t) ==
    /\ threads[t].pc = "idle"
    /\ \E at \in DOMAIN stores, op \in {"ReadValue", "WriteValue"} :
        threads' = [threads EXCEPT ![t] = [Idle EXCEPT !.pc = "lock", !.op = op, !.at = at]]
    /\ UNCHANGED stores
    /\ LockFrame

\* self.data.lock().map_err(..)?: waits for the guard; on a poisoned Mutex the
\* handler returns Failed and the guard is dropped at once
Lock(t) ==
    /\ threads[t].pc = "lock"
    /\ LET taken == Cardinality(threads[t].held)
           next == LocksOf(threads[t].at)[taken + 1]
       IN
       /\ MutexFree(next, threads[t].op)
       /\ threads' = [threads EXCEPT ![t] =
                        IF stores[next].poisoned THEN Idle
                        ELSE [@ EXCEPT !.held = @ \cup {next},
                                       !.pc = IF taken + 1 = Len(LocksOf(threads[t].at))
                                              THEN "held" ELSE "lock"]]
    /\ UNCHANGED stores
    /\ LockFrame

\* the handler returned or unwound: the buffer is as it leaves it and the
\* guard is dropped
Returned(t, out) ==
    /\ stores' = [stores EXCEPT ![threads[t].at] =
                    [data |-> out.data, poisoned |-> out.poisoned,
                     committed |-> out.data]]
    /\ threads' = [threads EXCEPT ![t] = Idle]
    /\ LockFrame

\* the body of read_value
ReadBody(t) ==
    /\ threads[t].pc = "held"
    /\ threads[t].op = "ReadValue"
    /\ \E options \in OptionsSet :
        Returned(t,
            IF Len(threads[t].at) = 2
            THEN GattCharacteristic1_read_value(stores[threads[t].at].data, FALSE,
                                                options, overflow_checks)
            ELSE GattDescriptor1_read_value(stores[threads[t].at].data, FALSE,
                                            options, overflow_checks))

\* the growth branch of write_value
WriteGrow(t) ==
    /\ threads[t].pc = "held"
    /\ threads[t].op = "WriteValue"
    /\ \E value \in Values, options \in OptionsSet :
        /\ OffsetIn(options) + Len(value) > Len(stores[threads[t].at].data)
        /\ Returned(t,
            IF Len(threads[t].at) = 2
            THEN GattCharacteristic1_write_value(stores[threads[t].at].data, FALSE,
                                                 value, options)
            ELSE GattDescriptor1_write_value(stores[threads[t].at].data, FALSE,
                                             value, options))

\* the other branch of write_value, first statement: data.truncate(value_len)
WriteTruncate(t) ==
    /\ threads[t].pc = "held"
    /\ threads[t].op = "WriteValue"
    /\ \E value \in Values, options \in OptionsSet :
        /\ OffsetIn(options) + Len(value) <= Len(stores[threads[t].at].data)
        /\ stores' = [stores EXCEPT ![threads[t].at].data = Truncate(@, Len(value))]
        /\ threads' = [threads EXCEPT ![t] =
                        [@ EXCEPT !.pc = "truncated", !.value = value,
                                  !.options = options]]
    /\ LockFrame

\* second statement: data[offset..].copy_from_slice(value), then Ok(())
WriteCopy(t) ==
    /\ threads[t].pc = "truncated"
    /\ Returned(t, write_value_copy(stores[threads[t].at].data, threads[t].value,
                                    OffsetIn(threads[t].options)))

NextLock ==
    \E t \in Threads :
        \/ Arrive(t)
        \/ Lock(t)
        \/ ReadBody(t)
        \/ WriteGrow(t)
        \/ WriteTruncate(t)
        \/ WriteCopy(t)

SpecLock == InitLock /\ [][NextLock]_vars

(***************************************************************************)
(* SpecFlags: two attributes of one interface, constructed with the same   *)
(* data and different flags, serve the same requests side by side.         *)
(* stores[1] and stores[2] are the two structs (buffer, poison flag and    *)
(* flags); last holds the request and the two replies.                     *)
(***************************************************************************)
\* The flags an attribute is constructed with
FlagSets == {<<>>, <<"read">>, <<"write">>, <<"read", "write">>}

\* A faulty variant of ReadValueOf: a ReadValue is refused unless the
\* attribute has the read flag
ReadValueOfReadable(self, options, checks) ==
    IF \A n \in 1 .. Len(self.flags) : self.flags[n] # "read"
    THEN Outcome("NotPermitted", <<>>, self.data, self.poisoned)
    ELSE GattCharacteristic1_read_value(self.data, self.poisoned, options, checks)

\* ReadValue as the interface of the struct self serves it: read_value looks
\* at self.data and the options, self.flags is not read
ReadValueOf(self, options, checks) ==
    IF kind = "GattCharacteristic1"
    THEN GattCharacteristic1_read_value(self.data, self.poisoned, options, checks)
    ELSE GattDescriptor1_read_value(self.data, self.poisoned, options, checks)

\* WriteValue likewise
WriteValueOf(self, value, options) ==
    IF kind = "GattCharacteristic1"
    THEN GattCharacteristic1_write_value(self.data, self.poisoned, value, options)
    ELSE GattDescriptor1_write_value(self.data, self.poisoned, value, options)

\* The notify / acquire methods of a characteristic, by name
MethodOf(self, method) ==
    IF method = "AcquireNotify" THEN GattCharacteristic1_acquire_notify(self)
    ELSE IF method = "AcquireWrite" THEN GattCharacteristic1_acquire_write(self)
    ELSE IF method = "Confirm" THEN GattCharacteristic1_confirm(self)
    ELSE IF method = "StartNotify" THEN GattCharacteristic1_start_notify(self)
    ELSE GattCharacteristic1_stop_notify(self)

InitFlags ==
    /\ kind \in {"GattCharacteristic1", "GattDescriptor1"}
    /\ overflow_checks \in BOOLEAN
    /\ data = <<>>
    /\ poisoned = FALSE
    /\ threads = <<>>
    /\ object_server = <<>>
    /\ registrar = <<>>
    /\ reg = NoRegistration
    /\ \E d \in Buffers, f \in FlagSets, g \in FlagSets :
        /\ f # g
        /\ stores = <<[data |-> d, poisoned |-> FALSE, flags |-> f],
                      [data |-> d, poisoned |-> FALSE, flags |-> g]>>
    /\ last = [op |-> "none", value |-> <<>>,
               options |-> [kind |-> "absent", val |-> 0], replies |-> <<>>]

\* both attributes served the request: outs are the two outcomes
ServedBoth(op, value, options, outs) ==
    /\ stores' = [n \in 1 .. 2 |->
                    [stores[n] EXCEPT !.data = outs[n].data,
                                      !.poisoned = outs[n].poisoned]]
    /\ last' = [op |-> op, value |-> value, options |-> options,
                replies |-> [n \in 1 .. 2 |-> Reply(outs[n].res, outs[n].ret)]]
    /\ UNCHANGED <<kind, overflow_checks, data, poisoned, threads>>
    /\ UNCHANGED reg_vars

FlagsReadValue ==
    \E options \in OptionsSet :
        ServedBoth("ReadValue", <<>>, options,
                   [n \in 1 .. 2 |-> ReadValueOf(stores[n], options, overflow_checks)])

FlagsWriteValue ==
    \E value \in Values, options \in OptionsSet :
        ServedBoth("WriteValue", value, options,
                   [n \in 1 .. 2 |-> WriteValueOf(stores[n], value, options)])

FlagsMethod ==
    /\ kind = "GattCharacteristic1"
    /\ \E method \in {"AcquireNotify", "AcquireWrite", "Confirm", "StartNotify",
                       "StopNotify"} :
        last' = [op |-> method, value |-> <<>>,
                 options |-> [kind |-> "absent", val |-> 0],
                 replies |-> [n \in 1 .. 2 |-> MethodOf(stores[n], method)]]
    /\ UNCHANGED <<kind, overflow_checks, data, poisoned>>
    /\ UNCHANGED reg_vars
    /\ UNCHANGED serve_vars

NextFlags ==
    \/ FlagsReadValue
    \/ FlagsWriteValue
    \/ FlagsMethod

SpecFlags == InitFlags /\ [][NextFlags]_vars

(***************************************************************************)
(* Claims about ReadValue / WriteValue, checked under Spec.                *)
(* Each speaks of the last request served: last.before is the buffer the   *)
(* request found, data the buffer it left, last.lock_ok whether the lock   *)
(* could be taken (a request that cannot take the lock is the lock-failure *)
(* case of the contract, not a read or a write of the buffer).             *)
(***************************************************************************)
OffsetOf(options) == IF options.kind = "U16" THEN options.val ELSE 0

Max(a, b) == IF a >= b THEN a ELSE b

Min(a, b) == IF a <= b THEN a ELSE b

Suffix(s, from) == SubSeq(s, from + 1, Len(s))

ServedRead == last.op = "ReadValue" /\ last.lock_ok

ServedWrite == last.op = "WriteValue" /\ last.lock_ok

\* C1: a ReadValue with an explicit u16 offset below the buffer's length
\* succeeds and returns exactly the bytes from the offset to the end.
C1_ReadBelowLengthReturnsSuffix ==
    (ServedRead /\ last.options.kind = "U16" /\ last.options.val < Len(last.before))
        => (last.res = "Ok" /\ last.ret = Suffix(last.before, last.options.val))

\* C2: a ReadValue with an explicit u16 offset at or past the buffer's length
\* is answered with the InvalidOffset error: no panic, no data.  (The read of
\* an empty buffer at offset 0, which the contract excepts, is left out: the
\* statement is about an empty buffer read at an offset > 0 and about every
\* non-empty buffer.)
C2_ReadAtOrPastLengthIsInvalidOffset ==
    (/\ ServedRead
     /\ last.options.kind = "U16"
     /\ last.options.val >= Len(last.before)
     /\ ~(last.before = <<>> /\ last.options.val = 0))
        => last.res = "InvalidOffset"

\* C3: a ReadValue, whatever its options and whatever its outcome, leaves the
\* value buffer as it found it.
C3_ReadNeverMutates ==
    last.op = "ReadValue" => data = last.before

C3_Witness ==
    /\ last.op = "ReadValue"
    /\ last.res = "Ok"
    /\ last.options.kind = "U16"
    /\ last.options.val > 0
    /\ Len(last.ret) > 0

\* C4: a WriteValue with offset + len(value) > length succeeds; the buffer's
\* new length is offset + max(length, len(value)), the old bytes before the
\* offset are kept and value is stored from the offset on.
C4_WriteGrowthRule ==
    (ServedWrite /\ OffsetOf(last.options) + Len(last.value) > Len(last.before))
        => /\ last.res = "Ok"
           /\ Len(data) = OffsetOf(last.options) + Max(Len(last.before), Len(last.value))
           /\ \A i \in 1 .. Min(OffsetOf(last.options), Len(last.before)) :
                data[i] = last.before[i]
           /\ \A i \in 1 .. Len(last.value) :
                data[OffsetOf(last.options) + i] = last.value[i]

\* C5: a WriteValue whose offset is greater than the buffer's length succeeds
\* and leaves the old bytes, then offset - length zero bytes, then value.
C5_WriteWithGap ==
    (ServedWrite /\ OffsetOf(last.options) > Len(last.before))
        => /\ last.res = "Ok"
           /\ data = last.before
                        \o [i \in 1 .. OffsetOf(last.options) - Len(last.before) |-> 0]
                        \o last.value

\* C6: a WriteValue at offset 0 (explicit or defaulted) of a value no longer
\* than the buffer succeeds and leaves the buffer equal to value.
C6_WriteAtZeroTruncates ==
    (ServedWrite /\ OffsetOf(last.options) = 0 /\ Len(last.before) >= Len(last.value))
        => (last.res = "Ok" /\ data = last.value)

C6_Witness ==
    /\ ServedWrite
    /\ last.options = [kind |-> "U16", val |-> 0]
    /\ Len(last.value) > 0
    /\ Len(last.before) > Len(last.value)
    /\ last.res = "Ok"

\* C7: a WriteValue with offset + len(value) <= length, at any offset,
\* succeeds and leaves a buffer of exactly len(value) bytes.
C7_WriteInsideBounds ==
    (ServedWrite /\ OffsetOf(last.options) + Len(last.value) <= Len(last.before))
        => (last.res = "Ok" /\ Len(data) = Len(last.value))

\* C8: when a successful WriteValue(value, offset) leaves offset + len(value)
\* <= length, the same WriteValue served next succeeds and leaves the buffer
\* as the first write left it.
C8_WriteIdempotent ==
    [][(/\ ServedWrite
        /\ last.res = "Ok"
        /\ OffsetOf(last.options) + Len(last.value) <= Len(data)
        /\ last'.op = "WriteValue"
        /\ last'.value = last.value
        /\ last'.options = last.options)
            => (last'.res = "Ok" /\ data' = data)]_vars

\* C9: a WriteValue of value at offset 0 on an empty buffer followed by a
\* ReadValue with offset 0 supplied returns exactly value.
C9_WriteThenReadRoundTrip ==
    [][(/\ ServedWrite
        /\ last.before = <<>>
        /\ OffsetOf(last.options) = 0
        /\ last'.op = "ReadValue"
        /\ last'.options = [kind |-> "U16", val |-> 0])
            => (last'.res = "Ok" /\ last'.ret = last.value)]_vars

(***************************************************************************)
(* Claims about registration, checked under SpecReg.                       *)
(***************************************************************************)
\* The path expected for the attribute declared at position pos under root
ExpectedPath(root, pos) ==
    IF Len(pos) = 1 THEN root \o "/service" \o ToString(pos[1])
    ELSE IF Len(pos) = 2
        THEN root \o "/service" \o ToString(pos[1])
                  \o "/characteristic" \o ToString(pos[2])
    ELSE root \o "/service" \o ToString(pos[1])
              \o "/characteristic" \o ToString(pos[2])
              \o "/descriptor" \o ToString(pos[3])

\* The zero-based positions of the attributes a declaration holds
Positions(services) ==
    LET S == 0 .. Len(services) - 1
        C(i) == 0 .. Len(services[i + 1].characteristics) - 1
        D(i, j) == 0 .. Len(services[i + 1].characteristics[j + 1].descriptors) - 1
    IN
    {<<i>> : i \in S}
        \cup UNION {{<<i, j>> : j \in C(i)} : i \in S}
        \cup UNION {UNION {{<<i, j, k>> : k \in D(i, j)} : j \in C(i)} : i \in S}

\* The UUID the declaration gives the attribute at position pos
DeclaredUuid(services, pos) ==
    IF Len(pos) = 1 THEN services[pos[1] + 1].service.uuid
    ELSE IF Len(pos) = 2
        THEN services[pos[1] + 1].characteristics[pos[2] + 1].gatt_char.uuid
    ELSE services[pos[1] + 1].characteristics[pos[2] + 1].descriptors[pos[3] + 1].uuid

PublishedAttributes ==
    {object_server[n] : n \in {m \in 1 .. Len(object_server) :
                                    object_server[m].pos # <<>>}}

C11_ManagedObjectsComplete ==
    (reg.status = "Ok" /\ reg.managed # <<>>)
        => /\ DOMAIN reg.managed[1] = {o.path : o \in PublishedAttributes}
           /\ Cardinality(DOMAIN reg.managed[1]) = Cardinality(Positions(reg.services))

\* The positions declared directly under position pos
ChildPositions(services, pos) ==
    {q \in Positions(services) :
        Len(q) = Len(pos) + 1 /\ SubSeq(q, 1, Len(pos)) = pos}

\* The objects published before the n-th publication
PublishedBefore(n) == {object_server[m].pos : m \in 1 .. n - 1}

\* C12: publication is depth-first: when a service is published every
\* characteristic declared under it has been published before it, and when a
\* characteristic is published every descriptor declared under it has been
\* published before it (in every registration, failed ones included).
C12_DepthFirstPublication ==
    \A n \in 1 .. Len(object_server) :
        object_server[n].interface \in {"org.bluez.GattService1",
                                        "org.bluez.GattCharacteristic1"}
            => ChildPositions(reg.services, object_server[n].pos)
                    \subseteq PublishedBefore(n)

C12_Witness ==
    /\ reg.status = "Err"
    /\ \E n \in 1 .. Len(object_server) :
        /\ object_server[n].pos = <<0>>
        /\ <<0, 0, 0>> \in PublishedBefore(n)
        /\ <<0, 0>> \in PublishedBefore(n)

\* The RegisterApplication calls the registrar received
RegisterApplicationCalls ==
    {n \in 1 .. Len(registrar) : registrar[n].method = "RegisterApplication"}

\* The application objects among the first n objects published
ApplicationObjectsAmong(n) ==
    {m \in 1 .. n : object_server[m].interface = "org.freedesktop.DBus.ObjectManager"}

StepsOf(services) == Cardinality(Positions(services)) + 3

\* The register_new call made meets a failure: the root is not an object path,
\* a child path is not one (children of the root "/"), or one of its bus
\* operations fails
SomeStepFails ==
    \/ ~RootPathValid(reg.path)
    \/ (reg.path = "/" /\ reg.services # <<>>)
    \/ reg.fail_at \in 1 .. StepsOf(reg.services)

\* C14: register_new returns an error, and no handle, exactly when a path
\* conversion, a publication, the proxy or the RegisterApplication call fails;
\* and the registrar has received a RegisterApplication call from a failed
\* registration only when that call itself is what failed.
C14_AllOrNothing ==
    reg.status # "none" =>
        /\ (reg.status = "Err") <=> SomeStepFails
        /\ reg.status = "Err" =>
            /\ reg.handle = <<>>
            /\ registrar # <<>> =>
                /\ reg.fail_at = StepsOf(reg.services)
                /\ Len(registrar) = 1
                /\ ~registrar[1].accepted

C14_Witness ==
    /\ reg.status = "Err"
    /\ reg.fail_at = 3
    /\ Len(object_server) = 2
    /\ registrar = <<>>
    /\ Cardinality(Positions(reg.services)) = MaxNodes

\* A step in which the handle's unregister was served
UnregisterServed ==
    /\ reg.status = "Ok"
    /\ reg'.status = "Ok"
    /\ (registrar' # registrar \/ reg'.unregister # reg.unregister)

\* The one UnregisterApplication call of an unregister: for the root path,
\* its result the result unregister returns
UnregisterCalledOnce ==
    registrar' = Append(registrar,
                    [method |-> "UnregisterApplication", path |-> reg.path,
                     accepted |-> (reg'.unregister = "Ok"),
                     published |-> Len(object_server)])

\* C15 as stated: every unregister makes exactly one UnregisterApplication
\* call for the root path, returns that call's result, and leaves every
\* published object in place.
C15_UnregisterExactlyOneCall ==
    [][UnregisterServed =>
        (object_server' = object_server /\ UnregisterCalledOnce)]_vars

\* C15, amended: every unregister that obtains the registrar proxy makes
\* exactly one UnregisterApplication call for the root path and returns that
\* call's result; one that cannot obtain the proxy returns the error and makes
\* no call; either way every published object stays in place.
C15_UnregisterOneCallOrNone ==
    [][UnregisterServed =>
        /\ object_server' = object_server
        /\ \/ UnregisterCalledOnce
           \/ (registrar' = registrar /\ reg'.unregister = "Err")]_vars

C15_Witness ==
    /\ reg.status = "Ok"
    /\ reg.unregister = "Ok"
    /\ Len(registrar) = 3
    /\ registrar[2].method = "UnregisterApplication"
    /\ ~registrar[2].accepted
    /\ registrar[3].accepted
    /\ Len(object_server) = MaxNodes + 1

(***************************************************************************)
(* Claims about a registered application serving requests, checked under   *)
(* SpecServe.                                                              *)
(***************************************************************************)
\* C16: every GetManagedObjects reply is the map replied right after
\* registration, whatever ReadValue, WriteValue, notify and acquire requests
\* the attributes served in between: no step changes the reply.
C16_ManagedObjectsStable ==
    [][reg'.managed = reg.managed]_vars

\* a reply made after notify calls and after a write that left the
\* descriptor's buffer different from the Value entry of its snapshot
C16_Witness ==
    /\ last.op = "GetManagedObjects"
    /\ last.notified
    /\ stores[<<0, 0, 0>>].data = <<0, 0>>
    /\ reg.managed[1][ObjectAt(<<0, 0, 0>>).path]["org.bluez.GattDescriptor1"].Value = <<1>>
    /\ stores[<<0, 0>>].data # DeclaredData(reg.services, <<0, 0>>)

CapabilityProperties == {"Notifying", "NotifyAcquired", "WriteAcquired"}

\* The field of the GattCharacteristic1 struct behind a capability property
CapabilityField(object, property) ==
    IF property = "Notifying" THEN object.notifying
    ELSE IF property = "NotifyAcquired" THEN object.notify_acquired
    ELSE object.write_acquired

\* The property maps held in a managed-objects map
SnapshotsOf(managed_objects) ==
    {managed_objects[path][interface] :
        <<path, interface>> \in
            {<<pa, i>> \in (DOMAIN managed_objects) \X {"org.bluez.GattService1",
                                                       "org.bluez.GattCharacteristic1",
                                                       "org.bluez.GattDescriptor1"} :
                i \in DOMAIN managed_objects[pa]}}

\* C17: a capability property left unset at construction is answered with
\* UnknownProperty by its getter (never with a value) and has no entry in any
\* property snapshot, in every state, also after StartNotify, StopNotify,
\* Confirm, AcquireNotify and AcquireWrite have been served.
C17_UnsetCapabilitiesUnknown ==
    /\ (last.op \in CapabilityProperties
            /\ CapabilityField(ObjectAt(last.at), last.op) = <<>>)
        => last.reply = Reply("UnknownProperty", <<>>)
    /\ \A o \in {ObjectAt(pos) : pos \in {q \in DOMAIN stores : Len(q) = 2}} :
        \A property \in CapabilityProperties :
            CapabilityField(o, property) = <<>>
                => \A snapshot \in SnapshotsOf(reg.managed[1])
                                    \cup {reg.handle.services[1].characteristics[o.uuid]
                                            .property_map} :
                        property \notin DOMAIN snapshot

C17_Witness ==
    /\ last.op = "Notifying"
    /\ last.notified
    /\ last.reply.res = "UnknownProperty"
    /\ "Flags" \in DOMAIN reg.managed[1][ObjectAt(last.at).path]["org.bluez.GattCharacteristic1"]

(***************************************************************************)
(* Claims about concurrent requests, checked under SpecLock.               *)
(***************************************************************************)
\* C18: at any moment at most one request holds the lock of a buffer; a
\* request that starts its body holding the lock finds the buffer as a
\* completed handler left it (as it was before or after each write, never
\* between the truncation and the copy of one); and a request waiting for the
\* lock of an attribute that no request holds can take it, whatever locks of
\* other attributes are held.
C18_PerBufferMutualExclusion ==
    /\ \A at \in DOMAIN stores :
        Cardinality({t \in Threads : Holds(t, at)}) <= 1
    /\ \A t \in Threads :
        threads[t].pc = "held"
            => stores[threads[t].at].data = stores[threads[t].at].committed
    /\ \A t \in Threads :
        (threads[t].pc = "lock" /\ \A u \in Threads : ~Holds(u, threads[t].at))
            => ENABLED Lock(t)

\* a write on the characteristic is between its truncation and its copy while
\* a read of the same characteristic waits for the lock
C18_Witness ==
    \E t, u \in Threads :
        /\ threads[t].pc = "truncated"
        /\ threads[t].at = <<0, 0>>
        /\ stores[<<0, 0>>].data # stores[<<0, 0>>].committed
        /\ threads[u].pc = "lock"
        /\ threads[u].op = "ReadValue"
        /\ threads[u].at = <<0, 0>>

(***************************************************************************)
(* Further claims about registration, checked under SpecReg.               *)
(***************************************************************************)
\* The path of the parent of the attribute declared at position pos
ExpectedParent(root, pos) == ExpectedPath(root, SubSeq(pos, 1, Len(pos) - 1))

\* The managed-objects maps of the application objects published
PublishedIndexes ==
    {object_server[n].managed_objects :
        n \in ApplicationObjectsAmong(Len(object_server))}

\* C19: every published characteristic answers its Service property with the
\* path of the service it was declared under, and every published descriptor
\* answers its Characteristic property with the path of the characteristic it
\* was declared under; the Service and Characteristic entries of their
\* property snapshots are those paths too.
C19_ParentBackReferences ==
    /\ \A o \in PublishedAttributes :
        /\ o.interface = "org.bluez.GattCharacteristic1"
            => GattCharacteristic1_service(o) = Reply("Ok", ExpectedParent(reg.path, o.pos))
        /\ o.interface = "org.bluez.GattDescriptor1"
            => GattDescriptor1_characteristic(o)
                    = Reply("Ok", ExpectedParent(reg.path, o.pos))
    /\ \A index \in PublishedIndexes :
        \A o \in {a \in PublishedAttributes : a.path \in DOMAIN index} :
            /\ o.interface = "org.bluez.GattCharacteristic1"
                => index[o.path][o.interface].Service = ExpectedParent(reg.path, o.pos)
            /\ o.interface = "org.bluez.GattDescriptor1"
                => index[o.path][o.interface].Characteristic
                        = ExpectedParent(reg.path, o.pos)

\* The handles a BTreeMap of handles holds
HandlesIn(map) == {map[key] : key \in DOMAIN map}

\* The value buffers reached from an application handle by services(),
\* characteristics(), descriptors() and data()
ReachableData(handle) ==
    UNION {UNION {{c.data} \cup {d.data : d \in HandlesIn(c.descriptors)} :
                    c \in HandlesIn(handle.services[i].characteristics)} :
            i \in 1 .. Len(handle.services)}

\* C20: after a register_new that returned a handle, the value buffer of
\* every declared characteristic and descriptor is reached from the handle,
\* for every declaration accepted (sibling attributes with one UUID included).
C20_EveryBufferReachable ==
    reg.status = "Ok" =>
        ReachableData(reg.handle) = AttributePositions(reg.services)

C22_LockFailureIsFailed ==
    (last.op # "none" /\ ~last.lock_ok)
        => /\ last.res = "Failed"
           /\ data = last.before
           /\ poisoned

C22_Witness ==
    /\ last.op = "ReadValue"
    /\ ~last.lock_ok
    /\ last.options.kind = "U16"
    /\ last.options.val >= Len(last.before)
    /\ last.res = "Failed"

\* C28: a ReadValue of an empty buffer with the offset 0 supplied succeeds and
\* returns no bytes.
C28_ReadEmptyAtZero ==
    (ServedRead /\ last.before = <<>> /\ last.options = [kind |-> "U16", val |-> 0])
        => (last.res = "Ok" /\ last.ret = <<>>)

\* C29: no request makes the attribute unusable: every request served
\* returned a result (none unwound holding the lock) and the lock is not
\* poisoned, so that a ReadValue without an offset would succeed.
C29_RequestsNeverDisable ==
    /\ last.res # "panic"
    /\ ~poisoned
    /\ GattCharacteristic1_read_value(data, poisoned, [kind |-> "absent", val |-> 0],
                                      overflow_checks).res = "Ok"

\* C30: a ReadValue whose options hold no offset, or an offset that is not a
\* u16, returns the whole buffer and is not rejected, whatever the buffer's
\* length.
C30_ReadWithoutOffsetReturnsAll ==
    (ServedRead /\ last.options.kind # "U16")
        => (last.res = "Ok" /\ last.ret = last.before)

C30_Witness ==
    /\ ServedRead
    /\ last.options.kind = "U32"
    /\ Len(last.before) = 1
    /\ last.res = "Ok"
    /\ last.ret = last.before
    /\ kind = "GattDescriptor1"

(***************************************************************************)
(* Further claims about registration, checked under SpecReg.               *)
(***************************************************************************)
\* The publications that precede the fail_at-th bus operation of a
\* registration of services: one per operation, up to every attribute and the
\* application object
PublishedBeforeFailure(services, fail_at) ==
    Min(fail_at - 1, Cardinality(Positions(services)) + 1)

\* C23: nothing is rolled back: when a bus operation of register_new fails,
\* every object whose publication preceded the failure is still on the object
\* server when the error is returned, each at its own path.
C23_NoRollback ==
    (/\ reg.status = "Err"
     /\ RootPathValid(reg.path)
     /\ ~(reg.path = "/" /\ reg.services # <<>>))
        => /\ Len(object_server) = PublishedBeforeFailure(reg.services, reg.fail_at)
           /\ \A n, m \in 1 .. Len(object_server) :
                object_server[n].path = object_server[m].path => n = m

C23_Witness ==
    /\ reg.status = "Err"
    /\ reg.fail_at = StepsOf(reg.services)
    /\ Len(registrar) = 1
    /\ Len(object_server) = MaxNodes + 1
    /\ object_server[MaxNodes + 1].interface = "org.freedesktop.DBus.ObjectManager"

(***************************************************************************)
(* Further claims about a registered application serving requests,         *)
(* checked under SpecServe.                                                *)
(***************************************************************************)
\* C24: AcquireNotify and AcquireWrite always reply NotSupported;
\* StartNotify, StopNotify and Confirm always reply success; and serving any
\* of the five changes no buffer, no lock, no published object, nothing the
\* registrar or the handle holds.
C24_StubMethods ==
    [][/\ last'.op \in {"AcquireNotify", "AcquireWrite"}
            => last'.reply = Reply("NotSupported", <<>>)
       /\ last'.op \in {"StartNotify", "StopNotify", "Confirm"}
            => last'.reply = Reply("Ok", <<>>)
       /\ last'.op \in {"AcquireNotify", "AcquireWrite", "StartNotify",
                        "StopNotify", "Confirm"}
            => /\ stores' = stores
               /\ object_server' = object_server
               /\ registrar' = registrar
               /\ reg' = reg]_vars

\* an AcquireWrite refused by a characteristic whose buffer earlier writes
\* changed, while the descriptor's lock is poisoned
C24_Witness ==
    /\ last.op = "AcquireWrite"
    /\ last.at = <<0, 0>>
    /\ last.reply.res = "NotSupported"
    /\ stores[<<0, 0>>].data # DeclaredData(reg.services, <<0, 0>>)
    /\ stores[<<0, 0, 0>>].poisoned

\* The attribute at pos serving a ReadValue without offset
InterfaceRead(pos) ==
    IF Len(pos) = 2
    THEN GattCharacteristic1_read_value(stores[pos].data, stores[pos].poisoned,
                                        [kind |-> "absent", val |-> 0], overflow_checks)
    ELSE GattDescriptor1_read_value(stores[pos].data, stores[pos].poisoned,
                                    [kind |-> "absent", val |-> 0], overflow_checks)

\* C26: the buffer handle.data() returns is the buffer the interface at the
\* handle's path reads and writes: the two are one Arc, so what the
\* application wrote through the handle is what a ReadValue returns, and what
\* the application reads through the handle is the buffer as the interface's
\* requests left it.
C26_SharedBuffer ==
    /\ \A h \in AttributeHandles(reg.handle) : h.data = ObjectAtPath(h.path).pos
    /\ last.op = "HandleWrite"
        => InterfaceRead(last.at) = Outcome("Ok", last.reply.ret, last.reply.ret, FALSE)
    /\ (last.op = "HandleRead" /\ last.reply.res = "Ok")
        => last.reply.ret = stores[last.at].data

\* the application reads, through the descriptor's handle, a buffer that a
\* WriteValue on the interface has grown beyond what any handle write stores
C26_Witness ==
    /\ last.op = "HandleRead"
    /\ last.at = <<0, 0, 0>>
    /\ last.reply = Reply("Ok", <<0, 0, 1>>)

(***************************************************************************)
(* Further claims about concurrent requests, checked under SpecLock.       *)
(***************************************************************************)
\* The body of the handler thread u runs can take a step
BodyEnabled(u) ==
    ENABLED (ReadBody(u) \/ WriteGrow(u) \/ WriteTruncate(u) \/ WriteCopy(u))

C25_FlagsDoNotGate ==
    /\ stores[1].flags # stores[2].flags
    /\ stores[1].data = stores[2].data
    /\ stores[1].poisoned = stores[2].poisoned
    /\ last.op # "none" => last.replies[1] = last.replies[2]

\* an attribute without any flag accepted a WriteValue that grew its buffer,
\* as the attribute with the read and write flags did
C25_Witness ==
    /\ last.op = "WriteValue"
    /\ stores[1].flags = <<>>
    /\ stores[2].flags = <<"read", "write">>
    /\ last.replies[1].res = "Ok"
    /\ Len(stores[1].data) = 2
    /\ last.value # <<>>

====
